---- MODULE Spec2Model ----
(***************************************************************************)
(* A model of app.py, the Open-Meteo weather dashboard: the two cached     *)
(* HTTP clients (get_weather_data, geocode_location), the weather-code     *)
(* catalog, the hourly / daily shaping done by the display functions and   *)
(* the session state kept by main().                                       *)
(*                                                                         *)
(* Coordinates are integers in units of 1e-5 degree (37.5665 is 3756650).  *)
(* Time is in seconds.  Catalog descriptions are the text of the source    *)
(* string without its leading emoji.                                       *)
(***************************************************************************)
EXTENDS Integers, Sequences, FiniteSets, TLC

VARIABLES now, weatherCache, weatherLog, lastCall,
          geoCache, geoLog, lastGeo,
          raw, shaped,
          session, lastRun

vars == << now, weatherCache, weatherLog, lastCall, geoCache, geoLog, lastGeo,
           raw, shaped, session, lastRun >>

cacheVars == << now, weatherCache, weatherLog, lastCall >>
geoVars == << geoCache, geoLog, lastGeo >>
shapeVars == << raw, shaped >>
sessionVars == << session, lastRun >>

----------------------------------------------------------------------------
(* Bounds of the model *)

\* the clock advances in steps of TimeStep seconds, up to MaxTime
TimeStep == 600
MaxTime == 4800

----------------------------------------------------------------------------
(* st.cache_data(ttl=...) : a process-wide memo keyed by the call's         *)
(* arguments.  Whatever the function returns is stored, None included; an  *)
(* entry is served until ttl seconds after it was stored.                  *)

WEATHER_TTL == 1800
GEO_TTL == 3600

NoEntry == [present |-> FALSE, value |-> "None", at |-> 0]

\* faults of the expiry test: half the window; an entry still served at ttl
FreshHalfWindow(entry, ttl, t) == entry.present /\ t - entry.at < ttl \div 2
FreshAtExpiry(entry, ttl, t) == entry.present /\ t - entry.at <= ttl

\* the entry of a key is usable at time t
Fresh(entry, ttl, t) == entry.present /\ t - entry.at < ttl

\* the cache after the decorated function returned value at time t
Store(cache, key, value, t) ==
    [cache EXCEPT ![key] = [present |-> TRUE, value |-> value, at |-> t]]

\* a call of a decorated function at time t, whose body would return value:
\* the body runs only when the key has no usable entry
CachedCall(cache, key, ttl, t, value) ==
    LET hit == Fresh(cache[key], ttl, t)
    IN  [hit |-> hit,
         ret |-> IF hit THEN cache[key].value ELSE value,
         cache |-> IF hit THEN cache ELSE Store(cache, key, value, t)]

----------------------------------------------------------------------------
(* get_weather_data *)

Seoul == << 3756650, 12697800 >>
\* the Seoul coordinates with floating-point noise in the fifth decimal
SeoulNoisy == << 3756651, 12697801 >>

WeatherKeys == { Seoul, SeoulNoisy }

\* what the provider answers: a forecast document, or a RequestException
\* (network error, timeout, non-success status)
Payloads == { "P1", "P2" }
WeatherResponses == [kind : {"ok"}, payload : Payloads]
                    \cup { [kind |-> "error", payload |-> "None"] }

\* the body of get_weather_data: one GET, the document on success, None after
\* the except clause
WeatherBody(resp) == IF resp.kind = "ok" THEN resp.payload ELSE "None"

NoCall == [called |-> FALSE, key |-> Seoul, at |-> 0, resp |-> "none",
           outbound |-> 0, ret |-> "None",
           prev |-> [k \in WeatherKeys |-> [at |-> -1, ret |-> "None"]]]

\* get_weather_data(latitude, longitude) at time now, against a provider that
\* would answer resp: whether the cache answered, the value returned and the
\* cache afterwards
GetWeatherData(key, resp) ==
    CachedCall(weatherCache, key, WEATHER_TTL, now, WeatherBody(resp))

CallGetWeatherData ==
    /\ \E key \in WeatherKeys, resp \in WeatherResponses :
         LET call == GetWeatherData(key, resp)
         IN  /\ weatherCache' = call.cache
             /\ weatherLog' = IF call.hit THEN weatherLog
                              ELSE [weatherLog EXCEPT ![key] = [at |-> now, ret |-> call.ret]]
             /\ lastCall' = [called |-> TRUE, key |-> key, at |-> now,
                             resp |-> IF call.hit THEN "none" ELSE resp.kind,
                             outbound |-> IF call.hit THEN 0 ELSE 1,
                             ret |-> call.ret, prev |-> weatherLog]
    /\ UNCHANGED << now, geoVars, shapeVars, sessionVars >>

\* time passes
Tick ==
    /\ now + TimeStep <= MaxTime
    /\ now' = now + TimeStep
    /\ UNCHANGED << weatherCache, weatherLog, lastCall, geoVars, shapeVars, sessionVars >>

----------------------------------------------------------------------------
(* geocode_location *)

\* the text typed in the search box; the cache key is the exact string
GeoNames == { "Seoul", "seoul" }
\* the texts typed during a session
CityNames == { "Seoul", "Springfield" }

Location(name, admin1, country, lat, lon) ==
    [name |-> name, admin1 |-> admin1, country |-> country,
     latitude |-> lat, longitude |-> lon]

SeoulLoc == Location("Seoul", "Seoul", "South Korea", 3756650, 12697800)
\* three candidates of one name; the first and the third also have the same
\* region and country.  A candidate without admin1 has admin1 = ""
SpringfieldIL == Location("Springfield", "Illinois", "United States", 3980170, -8964370)
SpringfieldMO == Location("Springfield", "Missouri", "United States", 3721530, -9329820)
SpringfieldIL2 == Location("Springfield", "Illinois", "United States", 4101000, -8960000)

ResultLists == { << SeoulLoc >>, << SpringfieldIL, SpringfieldMO, SpringfieldIL2 >> }

\* what the provider answers: a document with matches, a document without
\* (no 'results' key, or an empty list), or a RequestException
GeoResponses == [kind : {"results"}, results : ResultLists]
                \cup { [kind |-> "empty", results |-> << >>],
                       [kind |-> "error", results |-> << >>] }

None == [none |-> TRUE, results |-> << >>]
Some(results) == [none |-> FALSE, results |-> results]

\* the body of geocode_location: data['results'] when it is non-empty, None
\* when there are no matches, None after the except clause
GeoBody(resp) ==
    IF resp.kind = "error" THEN None
    ELSE IF resp.results # << >> THEN Some(resp.results)
    ELSE None

NoGeoEntry == [present |-> FALSE, value |-> None, at |-> 0]
NoGeoFetch == [at |-> -1, resp |-> "none", ret |-> None]

NoGeoCall == [called |-> FALSE, name |-> "Seoul", at |-> 0, resp |-> "none",
              outbound |-> 0, ret |-> None,
              prev |-> [n \in GeoNames |-> NoGeoFetch]]

\* geocode_location(city_name) at time now, against a provider that would
\* answer resp
GeocodeLocation(name, resp) ==
    CachedCall(geoCache, name, GEO_TTL, now, GeoBody(resp))

CallGeocodeLocation ==
    /\ \E name \in GeoNames, resp \in GeoResponses :
         LET call == GeocodeLocation(name, resp)
         IN  /\ geoCache' = call.cache
             /\ geoLog' = IF call.hit THEN geoLog
                          ELSE [geoLog EXCEPT ![name] =
                                  [at |-> now, resp |-> resp.kind, ret |-> call.ret]]
             /\ lastGeo' = [called |-> TRUE, name |-> name, at |-> now,
                            resp |-> IF call.hit THEN "none" ELSE resp.kind,
                            outbound |-> IF call.hit THEN 0 ELSE 1,
                            ret |-> call.ret, prev |-> geoLog]
    /\ UNCHANGED << cacheVars, shapeVars, sessionVars >>

----------------------------------------------------------------------------
(* The weather-code catalog *)

WEATHER_CODES ==
    (0 :> "Clear sky")
    @@ (1 :> "Mainly clear")
    @@ (2 :> "Partly cloudy")
    @@ (3 :> "Overcast")
    @@ (45 :> "Foggy")
    @@ (48 :> "Depositing rime fog")
    @@ (51 :> "Light drizzle")
    @@ (53 :> "Moderate drizzle")
    @@ (55 :> "Dense drizzle")
    @@ (61 :> "Slight rain")
    @@ (63 :> "Moderate rain")
    @@ (65 :> "Heavy rain")
    @@ (71 :> "Slight snow")
    @@ (73 :> "Moderate snow")
    @@ (75 :> "Heavy snow")
    @@ (77 :> "Snow grains")
    @@ (80 :> "Slight rain showers")
    @@ (81 :> "Moderate rain showers")
    @@ (82 :> "Violent rain showers")
    @@ (85 :> "Slight snow showers")
    @@ (86 :> "Heavy snow showers")
    @@ (95 :> "Thunderstorm")
    @@ (96 :> "Thunderstorm with hail")
    @@ (99 :> "Thunderstorm with heavy hail")

\* a fault of the lookup: WEATHER_CODES[code] in place of .get(code, "Unknown")
DescribeNoFallback(code) ==
    IF code \in DOMAIN WEATHER_CODES THEN WEATHER_CODES[code] ELSE "KeyError"

\* WEATHER_CODES.get(code, "Unknown")
Describe(code) ==
    IF code \in DOMAIN WEATHER_CODES THEN WEATHER_CODES[code] ELSE "Unknown"

----------------------------------------------------------------------------
(* The forecast document and its shaping by the display functions *)

\* the hourly chart keeps the first HOURLY_KEEP entries; the daily arrays of
\* a forecast document have DAILY_DAYS entries
HOURLY_KEEP == 24
DAILY_DAYS == 7

\* the hourly arrays of the sampled documents have HOURLY_KEEP entries, give
\* or take HourlySlack; a weather code is between -NegCodes and MaxCode
HourlySlack == 2
NegCodes == 1
MaxCode == 100

\* entry i of the array of a variable: distinct for every variable and index
Val(variable, i) == << variable, i >>
Series(variable, n) == [i \in 1..n |-> Val(variable, i)]

\* the hourly time axis starts at 2024-02-26T00:00, the daily one on Monday
\* 2024-02-26; a timestamp text is << year, month, day, hour >>
HourStamp(i) == << 2024, 2, 26 + ((i - 1) \div 24), (i - 1) % 24 >>
DayStamp(i) == IF 25 + i <= 29 THEN << 2024, 2, 25 + i, 0 >>
                               ELSE << 2024, 3, i - 4, 0 >>

\* pd.to_datetime of one timestamp text
ToDatetime(text) ==
    [year |-> text[1], month |-> text[2], day |-> text[3], hour |-> text[4]]

WeekdayAbbr == << "Sat", "Sun", "Mon", "Tue", "Wed", "Thu", "Fri" >>

\* the day of the week of a Gregorian date (Zeller's congruence)
Weekday(ts) ==
    LET m == IF ts.month < 3 THEN ts.month + 12 ELSE ts.month
        y == IF ts.month < 3 THEN ts.year - 1 ELSE ts.year
        k == y % 100
        j == y \div 100
        h == (ts.day + ((13 * (m + 1)) \div 5) + k + (k \div 4) + (j \div 4) + 5 * j) % 7
    IN  WeekdayAbbr[h + 1]

\* strftime('%Y-%m-%d (%a)')
FormatDailyLabel(ts) ==
    [year |-> ts.year, month |-> ts.month, day |-> ts.day, weekday |-> Weekday(ts)]

\* list[:n]
Take(list, n) == SubSeq(list, 1, IF Len(list) < n THEN Len(list) ELSE n)

Hourly(nTime, nTemp, nPrecip, nHumid, nWind) ==
    [time |-> [i \in 1..nTime |-> HourStamp(i)],
     temperature_2m |-> Series("temperature_2m", nTemp),
     precipitation |-> Series("precipitation", nPrecip),
     relative_humidity_2m |-> Series("relative_humidity_2m", nHumid),
     wind_speed_10m |-> Series("wind_speed_10m", nWind)]

Daily(codes, n) ==
    [time |-> [i \in 1..n |-> DayStamp(i)],
     temperature_2m_max |-> Series("temperature_2m_max", n),
     temperature_2m_min |-> Series("temperature_2m_min", n),
     precipitation_sum |-> Series("precipitation_sum", n),
     wind_speed_10m_max |-> Series("wind_speed_10m_max", n),
     weather_code |-> codes]

\* current: the weather code of the document, or no weather_code key
Current(hasCode, code) == [has_code |-> hasCode, weather_code |-> code]

HourlyLens == (HOURLY_KEEP - HourlySlack) .. (HOURLY_KEEP + HourlySlack)
DailyLens == { DAILY_DAYS - 1, DAILY_DAYS }
\* two codes of the catalog and one that is not in it
DailyCodes == { 0, 99, 4 }

Document(current, hourly, daily) ==
    [current |-> current, hourly |-> hourly, daily |-> daily]

DefaultCurrent == Current(TRUE, 0)
DefaultHourly == Hourly(HOURLY_KEEP, HOURLY_KEEP, HOURLY_KEEP, HOURLY_KEEP, HOURLY_KEEP)
DefaultDaily == Daily([i \in 1..DAILY_DAYS |-> 0], DAILY_DAYS)

\* the sampled documents: each varies one of the three sections
SampledDocument(doc) ==
    \/ \E c \in (0 - NegCodes)..MaxCode :
          doc = Document(Current(TRUE, c), DefaultHourly, DefaultDaily)
    \/ doc = Document(Current(FALSE, 0), DefaultHourly, DefaultDaily)
    \/ \E a \in HourlyLens, b \in HourlyLens, c \in HourlyLens,
          d \in HourlyLens, e \in HourlyLens :
          doc = Document(DefaultCurrent, Hourly(a, b, c, d, e), DefaultDaily)
    \/ \E m \in DailyLens, n \in DailyLens :
          \E codes \in [1..m -> DailyCodes] :
             doc = Document(DefaultCurrent, DefaultHourly, Daily(codes, n))

NotShaped == [fn |-> "none", status |-> "none", code |-> 0, desc |-> "", rows |-> << >>]

\* display_current_weather: the description shown on the first card
DisplayCurrentWeather ==
    /\ LET weather_code == IF raw.current.has_code THEN raw.current.weather_code ELSE 0
       IN  shaped' = [fn |-> "current", status |-> "ok", code |-> weather_code,
                      desc |-> Describe(weather_code), rows |-> << >>]
    /\ UNCHANGED << raw, cacheVars, geoVars, sessionVars >>

\* pd.DataFrame(dict of columns): the columns must have one length
SameLength(lengths) == Cardinality(lengths) = 1

\* the frame built by display_hourly_forecast
HourlyRows(hourly) ==
    LET time == Take(hourly.time, HOURLY_KEEP)
        temperature == Take(hourly.temperature_2m, HOURLY_KEEP)
        precipitation == Take(hourly.precipitation, HOURLY_KEEP)
        humidity == Take(hourly.relative_humidity_2m, HOURLY_KEEP)
    IN  IF ~ SameLength({ Len(time), Len(temperature), Len(precipitation), Len(humidity) })
        THEN [status |-> "ValueError", rows |-> << >>]
        ELSE [status |-> "ok",
              rows |-> [i \in 1..Len(time) |->
                          [time |-> ToDatetime(time[i]),
                           temperature |-> temperature[i],
                           precipitation |-> precipitation[i],
                           humidity |-> humidity[i]]]]

DisplayHourlyForecast ==
    /\ LET df == HourlyRows(raw.hourly)
       IN  shaped' = [fn |-> "hourly", status |-> df.status, code |-> 0,
                      desc |-> "", rows |-> df.rows]
    /\ UNCHANGED << raw, cacheVars, geoVars, sessionVars >>

\* a fault of the Weather column: the description of the first day on every row
DailyRowsFirstCode(daily) ==
    [status |-> "ok",
     rows |-> [i \in 1..Len(daily.time) |->
                 [Date |-> FormatDailyLabel(ToDatetime(daily.time[i])),
                  MaxTemp |-> daily.temperature_2m_max[i],
                  MinTemp |-> daily.temperature_2m_min[i],
                  Precipitation |-> daily.precipitation_sum[i],
                  MaxWind |-> daily.wind_speed_10m_max[i],
                  Weather |-> Describe(daily.weather_code[1])]]]

\* the frame built by display_daily_forecast, after the Date column is formatted
DailyRows(daily) ==
    LET Weather == [i \in 1..Len(daily.weather_code) |-> Describe(daily.weather_code[i])]
    IN  IF ~ SameLength({ Len(daily.time), Len(daily.temperature_2m_max),
                          Len(daily.temperature_2m_min), Len(daily.precipitation_sum),
                          Len(daily.wind_speed_10m_max), Len(Weather) })
        THEN [status |-> "ValueError", rows |-> << >>]
        ELSE [status |-> "ok",
              rows |-> [i \in 1..Len(daily.time) |->
                          [Date |-> FormatDailyLabel(ToDatetime(daily.time[i])),
                           MaxTemp |-> daily.temperature_2m_max[i],
                           MinTemp |-> daily.temperature_2m_min[i],
                           Precipitation |-> daily.precipitation_sum[i],
                           MaxWind |-> daily.wind_speed_10m_max[i],
                           Weather |-> Weather[i]]]]

DisplayDailyForecast ==
    /\ LET df == DailyRows(raw.daily)
       IN  shaped' = [fn |-> "daily", status |-> df.status, code |-> 0,
                      desc |-> "", rows |-> df.rows]
    /\ UNCHANGED << raw, cacheVars, geoVars, sessionVars >>

----------------------------------------------------------------------------
(* main(): one run of the script per page load or widget event *)

\* the buttons of the first MaxCity entries of popular_cities are pressed
MaxCity == 3

\* popular_cities, in the order of the dict; the flag of a name is written
\* as its two letters
popular_cities ==
    << [city |-> "Seoul KR", coords |-> << 3756650, 12697800 >>],
       [city |-> "Tokyo JP", coords |-> << 3567620, 13965030 >>],
       [city |-> "New York US", coords |-> << 4071280, -7400600 >>],
       [city |-> "London GB", coords |-> << 5150740, -12780 >>],
       [city |-> "Paris FR", coords |-> << 4885660, 235220 >>],
       [city |-> "Sydney AU", coords |-> << -3386880, 15120930 >>] >>

\* a location_name: a literal text, the label of a candidate, or the text
\* made of the two manual coordinates
Literal(text) == [fmt |-> "literal", parts |-> << text, "", "" >>, nums |-> << 0, 0 >>]
\* f"{loc['name']}, {loc.get('admin1', '')}, {loc['country']}"
Label(loc) == [fmt |-> "label", parts |-> << loc.name, loc.admin1, loc.country >>,
               nums |-> << 0, 0 >>]
\* f"Lat: {manual_lat}, Lon: {manual_lon}"
LatLonText(lat, lon) == [fmt |-> "latlon", parts |-> << "Lat: ", ", Lon: ", "" >>,
                         nums |-> << lat, lon >>]

\* st.session_state: the three keys, or none of them yet
NoSession == [set |-> FALSE, latitude |-> 0, longitude |-> 0, location_name |-> Literal("")]
State(lat, lon, name) ==
    [set |-> TRUE, latitude |-> lat, longitude |-> lon, location_name |-> name]

\* the values of the two number inputs: their defaults, or another pair
ManualInputs == { << 3756650, 12697800 >>, << 3567620, 13965030 >> }

\* every pair a session of the model can select
SessionCoords ==
    { popular_cities[i].coords : i \in 1..Len(popular_cities) }
    \cup ManualInputs
    \cup UNION { { << l[i].latitude, l[i].longitude >> : i \in 1..Len(l) } : l \in ResultLists }

\* list.index(x): the first position of x
IndexOf(list, x) == CHOOSE i \in 1..Len(list) : list[i] = x /\ \A j \in 1..(i - 1) : list[j] # x

NoRun == [ran |-> FALSE, pressed |-> "none", setter |-> "none", input |-> << 0, 0 >>,
          geocoded |-> "no", weather |-> "None", fetched |-> << 0, 0 >>]

\* a fault of a popular-city button: the name is not updated with the pair
PressCityKeepsName(state, entry) ==
    State(entry.coords[1], entry.coords[2], state.location_name)

\* the body of the button of one popular city
PressCity(state, entry) == State(entry.coords[1], entry.coords[2], Literal(entry.city))

\* the button whose event started a run: none, Get Weather, Use These
\* Coordinates, or the popular city at a position of the dict
Button(kind, position) == [kind |-> kind, city |-> position]

\* what the provider would answer to a search for city_name
SessionGeoResponses(city_name) ==
    { [kind |-> "results",
       results |-> IF city_name = "Seoul" THEN << SeoulLoc >>
                   ELSE << SpringfieldIL, SpringfieldMO, SpringfieldIL2 >>],
      [kind |-> "empty", results |-> << >>],
      [kind |-> "error", results |-> << >>] }

SessionWeatherResponses ==
    { [kind |-> "ok", payload |-> "P1"], [kind |-> "error", payload |-> "None"] }

\* the provider answers only when a request is sent
GeoAnswers(city_name) ==
    IF city_name = "" \/ Fresh(geoCache[city_name], GEO_TTL, now)
    THEN { [kind |-> "empty", results |-> << >>] }
    ELSE SessionGeoResponses(city_name)

WeatherAnswers(key) ==
    IF Fresh(weatherCache[key], WEATHER_TTL, now)
    THEN { [kind |-> "ok", payload |-> "P1"] }
    ELSE SessionWeatherResponses

\* the sidebar block of the city search: the session state after it, and
\* whether the Get Weather button was drawn and pressed
SearchByCity(state, clicked, listed, locations, choice) ==
    IF listed /\ clicked.kind = "get"
    THEN LET location_options == [i \in 1..Len(locations) |-> Label(locations[i])]
             selected_location ==
                 location_options[IF choice <= Len(locations) THEN choice ELSE 1]
             selected_loc == locations[IndexOf(location_options, selected_location)]
         IN  State(selected_loc.latitude, selected_loc.longitude, selected_location)
    ELSE state

\* the sidebar from the manual coordinates on, and the default
Sidebar(state, clicked, manual) ==
    LET s2 == IF clicked.kind = "use"
              THEN State(manual[1], manual[2], LatLonText(manual[1], manual[2]))
              ELSE state
        s3 == IF clicked.kind = "city"
              THEN PressCity(s2, popular_cities[clicked.city])
              ELSE s2
    IN  IF ~ s3.set
        THEN State(3756650, 12697800, Literal("Seoul, South Korea"))
        ELSE s3

\* One run of main().  clicked is the button whose event started the run,
\* city_name the text of the search box, choice the position picked in the
\* select box, manual the two number inputs.
Main(clicked, city_name, choice, manual) ==
    \E geoResp \in GeoAnswers(city_name) :
      LET searched == city_name # ""
          geo == IF searched THEN GeocodeLocation(city_name, geoResp)
                             ELSE [hit |-> TRUE, ret |-> None, cache |-> geoCache]
          listed == searched /\ ~ geo.ret.none
          s1 == SearchByCity(session, clicked, listed, geo.ret.results, choice)
          s4 == Sidebar(s1, clicked, manual)
          args == << s4.latitude, s4.longitude >>
          pressed == IF clicked.kind = "get" /\ ~ listed THEN "none" ELSE clicked.kind
      IN  \E weatherResp \in WeatherAnswers(args) :
            LET weather == GetWeatherData(args, weatherResp)
            IN  /\ geoCache' = geo.cache
                /\ weatherCache' = weather.cache
                /\ session' = s4
                /\ lastRun' = [ran |-> TRUE,
                               pressed |-> pressed,
                               setter |-> IF pressed # "none" THEN pressed
                                          ELSE IF ~ session.set THEN "default"
                                          ELSE lastRun.setter,
                               input |-> IF pressed = "get" THEN << s1.latitude, s1.longitude >>
                                         ELSE IF pressed = "use" THEN manual
                                         ELSE IF pressed = "city" THEN << clicked.city, 0 >>
                                         ELSE lastRun.input,
                               geocoded |-> IF ~ searched THEN "no"
                                            ELSE IF listed THEN "listed" ELSE "None",
                               weather |-> weather.ret,
                               fetched |-> args]
                /\ UNCHANGED << now, weatherLog, lastCall, geoLog, lastGeo, shapeVars >>

DefaultManual == << 3756650, 12697800 >>

\* a run with no button event: the first load, or an edit of an input
Rerun ==
    \E city_name \in CityNames \cup { "" } :
        Main(Button("none", 0), city_name, 1, DefaultManual)

\* the runs started by a button; a button exists once the page was drawn
PressGetWeather ==
    /\ session.set
    /\ \E city_name \in CityNames, choice \in 1..3 :
         Main(Button("get", 0), city_name, choice, DefaultManual)

PressUseCoordinates ==
    /\ session.set
    /\ \E city_name \in CityNames \cup { "" }, manual \in ManualInputs :
         Main(Button("use", 0), city_name, 1, manual)

PressPopularCity ==
    /\ session.set
    /\ \E city_name \in CityNames \cup { "" }, i \in 1..MaxCity :
         Main(Button("city", i), city_name, 1, DefaultManual)

----------------------------------------------------------------------------
InitIdle ==
    /\ now = 0
    /\ weatherCache = [k \in WeatherKeys |-> NoEntry]
    /\ weatherLog = [k \in WeatherKeys |-> [at |-> -1, ret |-> "None"]]
    /\ lastCall = NoCall
    /\ geoCache = [n \in GeoNames |-> NoGeoEntry]
    /\ geoLog = [n \in GeoNames |-> NoGeoFetch]
    /\ lastGeo = NoGeoCall
    /\ raw = Document(DefaultCurrent, DefaultHourly, DefaultDaily)
    /\ shaped = NotShaped
    /\ session = NoSession
    /\ lastRun = NoRun

----------------------------------------------------------------------------
(* The weather client on its own: calls of get_weather_data as time passes *)

Init == InitIdle

Next == CallGetWeatherData \/ Tick

Spec == Init /\ [][Next]_vars

(* The geocoding client on its own *)

NextGeo == CallGeocodeLocation \/ Tick

SpecGeo == Init /\ [][NextGeo]_vars

(* The display functions applied to the sampled documents *)

InitShape ==
    /\ now = 0
    /\ weatherCache = [k \in WeatherKeys |-> NoEntry]
    /\ weatherLog = [k \in WeatherKeys |-> [at |-> -1, ret |-> "None"]]
    /\ lastCall = NoCall
    /\ geoCache = [n \in GeoNames |-> NoGeoEntry]
    /\ geoLog = [n \in GeoNames |-> NoGeoFetch]
    /\ lastGeo = NoGeoCall
    /\ SampledDocument(raw)
    /\ shaped = NotShaped
    /\ session = NoSession
    /\ lastRun = NoRun

NextShape == DisplayCurrentWeather \/ DisplayHourlyForecast \/ DisplayDailyForecast

SpecShape == InitShape /\ [][NextShape]_vars

(* A browser session: runs of main().  The clock stands still, so an entry  *)
(* of either cache is served for the rest of the session.                  *)

InitSession ==
    /\ now = 0
    /\ weatherCache = [k \in SessionCoords |-> NoEntry]
    /\ weatherLog = [k \in WeatherKeys |-> [at |-> -1, ret |-> "None"]]
    /\ lastCall = NoCall
    /\ geoCache = [n \in CityNames |-> NoGeoEntry]
    /\ geoLog = [n \in GeoNames |-> NoGeoFetch]
    /\ lastGeo = NoGeoCall
    /\ raw = Document(DefaultCurrent, DefaultHourly, DefaultDaily)
    /\ shaped = NotShaped
    /\ session = NoSession
    /\ lastRun = NoRun

NextSession == Rerun \/ PressGetWeather \/ PressUseCoordinates \/ PressPopularCity

SpecSession == InitSession /\ [][NextSession]_vars

----------------------------------------------------------------------------
(* Properties of the weather client *)

\* the last outbound fetch for the key of the last call, as it was before
\* that call
PrevFetch == lastCall.prev[lastCall.key]

\* C1: a call for a pair made less than 1800 seconds after the fetch that
\* answered the previous call for the same pair returns what that fetch
\* returned and sends no HTTP request.
C1_HitWithinTTL ==
    (lastCall.called /\ PrevFetch.at >= 0
       /\ lastCall.at - PrevFetch.at < 1800)
    => (lastCall.outbound = 0 /\ lastCall.ret = PrevFetch.ret)

C1_Witness ==
    /\ lastCall.called /\ PrevFetch.at >= 0
    /\ lastCall.at > PrevFetch.at
    /\ lastCall.at - PrevFetch.at < 1800
    /\ lastCall.ret \in Payloads

\* C2: a call for a pair made 1800 seconds or more after the pair's last
\* fetch sends exactly one HTTP request, and the pair's entry then dates from
\* that call.
C2_RefetchAfterExpiry ==
    (lastCall.called /\ PrevFetch.at >= 0
       /\ lastCall.at - PrevFetch.at >= 1800)
    => /\ lastCall.outbound = 1
       /\ weatherCache[lastCall.key].present
       /\ weatherCache[lastCall.key].at = lastCall.at
       /\ weatherCache[lastCall.key].value = lastCall.ret

C2_Witness ==
    /\ lastCall.called /\ PrevFetch.at >= 0
    /\ lastCall.at - PrevFetch.at >= 1800
    /\ lastCall.at - PrevFetch.at < 1800 + TimeStep
    /\ lastCall.outbound = 1
    /\ weatherCache[lastCall.key].at = lastCall.at

\* C3: a fetch that meets a transport failure fails with TransportError and
\* leaves no cache entry for its key, so the next call for the pair sends a
\* new HTTP request.
C3_FailureNotCached ==
    /\ (lastCall.called /\ lastCall.resp = "error")
         => (lastCall.ret = "TransportError"
             /\ ~ weatherCache[lastCall.key].present)
    /\ (lastCall.called /\ PrevFetch.at >= 0 /\ PrevFetch.ret \notin Payloads)
         => lastCall.outbound = 1

\* rounding of a coordinate to four decimals, half up
RoundCoord(x) == (x + 5) \div 10
RoundKey(key) == << RoundCoord(key[1]), RoundCoord(key[2]) >>

\* C9: a call within the TTL of a fetch for another pair that rounds to the
\* same coordinates is answered from that pair's entry, without an HTTP
\* request.
C9_RoundedKeyShared ==
    \A other \in WeatherKeys :
        (lastCall.called /\ other # lastCall.key
           /\ RoundKey(other) = RoundKey(lastCall.key)
           /\ lastCall.prev[other].at >= 0
           /\ lastCall.at - lastCall.prev[other].at < 1800)
        => (lastCall.outbound = 0 /\ lastCall.ret = lastCall.prev[other].ret)

----------------------------------------------------------------------------
(* Properties of the geocoding client *)

PrevGeoFetch == lastGeo.prev[lastGeo.name]

\* C4: only successful lookups are cached: the call that follows a lookup of
\* the same string which ended in a transport failure or in zero matches
\* sends a new HTTP request.
C4_GeoErrorsNotCached ==
    (lastGeo.called /\ PrevGeoFetch.at >= 0
       /\ PrevGeoFetch.resp \in {"empty", "error"})
    => lastGeo.outbound = 1

\* C5: a lookup with zero matches and a lookup that met a transport failure
\* hand different outcomes to the caller.
C5_GeoFailuresDistinct ==
    \A n \in GeoNames :
        (lastGeo.called /\ lastGeo.outbound = 1
           /\ lastGeo.prev[n].at >= 0
           /\ { lastGeo.resp, lastGeo.prev[n].resp } = {"empty", "error"})
        => lastGeo.ret # lastGeo.prev[n].ret

----------------------------------------------------------------------------
(* Properties of the catalog and of the shaping *)

CatalogCodes == { 0, 1, 2, 3, 45, 48, 51, 53, 55, 61, 63, 65, 71, 73, 75, 77,
                  80, 81, 82, 85, 86, 95, 96, 99 }

\* C6: the description shown for a weather code is the catalog's text when
\* the code is a key of the catalog and "Unknown" when it is not; the lookup
\* never fails.
C6_DescribeTotal ==
    shaped.fn = "current" =>
        /\ shaped.status = "ok"
        /\ shaped.desc # "KeyError"
        /\ shaped.code \in CatalogCodes
             => (shaped.code \in DOMAIN WEATHER_CODES
                 /\ shaped.desc = WEATHER_CODES[shaped.code]
                 /\ shaped.desc # "Unknown")
        /\ shaped.code \notin CatalogCodes => shaped.desc = "Unknown"

C6_Witness ==
    /\ shaped.fn = "current"
    /\ raw.current.has_code
    /\ raw.current.weather_code = 4
    /\ shaped.desc = "Unknown"

HourlyLengths ==
    { Len(raw.hourly.time), Len(raw.hourly.temperature_2m),
      Len(raw.hourly.precipitation), Len(raw.hourly.relative_humidity_2m),
      Len(raw.hourly.wind_speed_10m) }

\* C7: hourly shaping gives one record per index for the first 24 entries,
\* each field from its own array at that index, and fails whenever the
\* hourly arrays of the document differ in length.
C7_HourlyMismatchFails ==
    shaped.fn = "hourly" =>
        IF Cardinality(HourlyLengths) > 1
        THEN shaped.status # "ok"
        ELSE /\ shaped.status = "ok"
             /\ Len(shaped.rows) <= 24
             /\ \A i \in 1..Len(shaped.rows) :
                  /\ shaped.rows[i].temperature = raw.hourly.temperature_2m[i]
                  /\ shaped.rows[i].precipitation = raw.hourly.precipitation[i]
                  /\ shaped.rows[i].humidity = raw.hourly.relative_humidity_2m[i]

DailyLengths ==
    { Len(raw.daily.time), Len(raw.daily.temperature_2m_max),
      Len(raw.daily.temperature_2m_min), Len(raw.daily.precipitation_sum),
      Len(raw.daily.wind_speed_10m_max), Len(raw.daily.weather_code) }

\* the days of the week from Monday 2024-02-26 on
SampleWeekdays == << "Mon", "Tue", "Wed", "Thu", "Fri", "Sat", "Sun" >>

\* C8: daily shaping of a document with 7 entries per daily array gives 7
\* rows in input order; row i carries the description of weather_code[i]
\* (the catalog's text, or "Unknown") and entry i of every other array.
C8_DailyRowsAligned ==
    (shaped.fn = "daily" /\ DailyLengths = { 7 }) =>
        /\ shaped.status = "ok"
        /\ Len(shaped.rows) = 7
        /\ \A i \in 1..7 :
             LET row == shaped.rows[i]
                 code == raw.daily.weather_code[i]
             IN  /\ row.Weather = IF code \in CatalogCodes
                                  THEN WEATHER_CODES[code] ELSE "Unknown"
                 /\ row.MaxTemp = raw.daily.temperature_2m_max[i]
                 /\ row.MinTemp = raw.daily.temperature_2m_min[i]
                 /\ row.Precipitation = raw.daily.precipitation_sum[i]
                 /\ row.MaxWind = raw.daily.wind_speed_10m_max[i]
                 /\ << row.Date.year, row.Date.month, row.Date.day >>
                      = SubSeq(raw.daily.time[i], 1, 3)
                 /\ row.Date.weekday = SampleWeekdays[i]

C8_Witness ==
    /\ shaped.fn = "daily" /\ DailyLengths = { 7 }
    /\ Len(shaped.rows) = 7
    /\ raw.daily.weather_code[1] = 0
    /\ raw.daily.weather_code[2] = 4
    /\ raw.daily.weather_code[7] = 99
    /\ shaped.rows[2].Weather = "Unknown"

----------------------------------------------------------------------------
(* Properties of the session *)

\* the three values as the action named by lastRun.setter writes them
SetTogether ==
    CASE lastRun.setter = "default" ->
           session = State(3756650, 12697800, Literal("Seoul, South Korea"))
      [] lastRun.setter = "city" ->
           LET entry == popular_cities[lastRun.input[1]]
           IN  session = State(entry.coords[1], entry.coords[2], Literal(entry.city))
      [] lastRun.setter = "use" ->
           session = State(lastRun.input[1], lastRun.input[2],
                           LatLonText(lastRun.input[1], lastRun.input[2]))
      [] lastRun.setter = "get" ->
           /\ session.set
           /\ << session.latitude, session.longitude >> = lastRun.input
           /\ \E list \in ResultLists : \E i \in 1..Len(list) :
                /\ session.location_name = Label(list[i])
                /\ session.latitude = list[i].latitude
                /\ session.longitude = list[i].longitude
      [] OTHER -> FALSE

SessionConsistent ==
    lastRun.ran =>
        /\ session.set
        /\ SetTogether
        /\ lastRun.fetched = << session.latitude, session.longitude >>

\* a run in which no button took effect keeps the three values
KeptWithoutButton ==
    (session.set /\ lastRun'.pressed = "none") => session' = session

\* C10: after every run the latitude, longitude and location_name of the
\* session are those written together by one action (the Seoul default, or
\* the last button that took effect), the weather fetch of the run was called
\* with that latitude and longitude, and a run in which no button took
\* effect, whatever failed in it, leaves the three values as they were.
C10_SessionTriple == [] SessionConsistent /\ [][KeptWithoutButton]_vars

C10_Witness ==
    /\ lastRun.ran
    /\ lastRun.pressed = "none"
    /\ lastRun.geocoded = "None"
    /\ lastRun.weather = "None"
    /\ lastRun.setter = "get"
    /\ session.location_name = Label(SpringfieldMO)

====
